---- MODULE Spec2Model ----
(***************************************************************************)
(* Model of publicAPI/crest_utils.py: the tinyDB cache helpers             *)
(* (setup_cache_file, write_cache_entry), the endpoint resolver            *)
(* (endpoint_to_kwarg), the CREST fetcher (fetch_crest_endpoint) and the   *)
(* cache-or-fetch orchestrator (validate_id).                              *)
(*                                                                         *)
(* Python exceptions are modelled as records [raised, exc, ...]; a local   *)
(* variable that was never assigned holds the value Unbound, and reading   *)
(* it raises UnboundLocalError as it does in Python.                       *)
(***************************************************************************)
EXTENDS Integers, Sequences, FiniteSets, TLC

\* ---------------------------------------------------------------- bounds
MaxId == 2
MaxTime == 1
MaxCalls == 2
\* value of [CACHING] sde_cache_limit in the configuration (seconds)
CacheLimit == 1

\* endpoint names callers pass; the first two are those of endpoint_to_kwarg
Endpoints == {"inventory_types", "map_regions", "not_a_real_endpoint"}
Ids == 1 .. MaxId
\* the payloads are opaque documents; two distinct ones tell a replaced
\* payload from a kept one
Payloads == {"doc_a", "doc_b"}

\* what [RESOURCES] <endpoint_name> holds: no option at all, or an address
\* template whose placeholder is {type_id} or {region_id}
Templates == {"missing", "type_id", "region_id"}
\* what the CREST service does with one GET
Remotes == {"ok", "ConnectionError", "HTTPError", "ValueError"}

\* cache: the tinyDB table of each cache file; now: the UTC clock; last: what
\* the last completed call did; calls: how many calls were made; procs: the
\* calls in progress when calls run concurrently
VARIABLES cache, now, last, calls, procs

vars == <<cache, now, last, calls, procs>>

\* ------------------------------------------------------- Python values
Unbound == [kind |-> "unbound"]
None == [kind |-> "none"]
Data(p) == [kind |-> "data", data |-> p]
Docs(d) == [kind |-> "docs", docs |-> d]
Handle(h) == [kind |-> "handle", name |-> h]

NoError == [status |-> 0, message |-> <<>>, cause |-> "none", context |-> "none"]

\* ------------------------------------------------------------- tinyDB
\* setup_cache_file: TinyDB(<cache>/<cache_filename>.json); opening the
\* file can fail (unreadable or corrupt cache file)
SetupCacheFile(cache_filename, openable) ==
    IF openable
    THEN [raised |-> FALSE, exc |-> "none", handle |-> cache_filename]
    ELSE [raised |-> TRUE, exc |-> "OSError", handle |-> cache_filename]

\* tinydb_handle.search(Query().index_key == index_key)
Search(table, index_key) ==
    SelectSeq(table, LAMBDA doc : doc.index_key = index_key)

\* an update that replaces the payload and leaves the timestamp of the
\* earlier write (a torn write, for comparison)
UpdateKeepsTimestamp(table, utcnow, data_payload, index_key) ==
    [i \in DOMAIN table |->
        IF table[i].index_key = index_key
        THEN [table[i] EXCEPT !.payload = data_payload]
        ELSE table[i]]

\* tinydb_handle.update({...}, Query().index_key == index_key)
Update(table, utcnow, data_payload, index_key) ==
    [i \in DOMAIN table |->
        IF table[i].index_key = index_key
        THEN [table[i] EXCEPT !.cache_datetime = utcnow, !.payload = data_payload]
        ELSE table[i]]

\* an insert that replaces the content of the table by the new document
\* (for comparison)
InsertReplacesTable(table, utcnow, data_payload, index_key) ==
    <<[cache_datetime |-> utcnow,
       payload |-> data_payload,
       index_key |-> index_key]>>

\* tinydb_handle.insert({...})
Insert(table, utcnow, data_payload, index_key) ==
    Append(table, [cache_datetime |-> utcnow,
                   payload |-> data_payload,
                   index_key |-> index_key])

WriteCacheEntryAlwaysInserts(table, index_key, data_payload, utcnow) ==
    Insert(table, utcnow, data_payload, index_key)

\* write_cache_entry: update the documents of the key when search finds
\* any, insert a new document otherwise
WriteCacheEntry(table, index_key, data_payload, utcnow) ==
    IF Search(table, index_key) # <<>>
    THEN Update(table, utcnow, data_payload, index_key)
    ELSE Insert(table, utcnow, data_payload, index_key)

\* ----------------------------------------------------- the cache query
\* Python's `lhs & rhs` by operand type: defined for two ints and for two
\* tinyDB query results; a float has no __and__ and Query has no __rand__
SupportsBitAnd(lhs_type, rhs_type) ==
    \/ lhs_type = "int" /\ rhs_type = "int"
    \/ lhs_type = "QueryImpl" /\ rhs_type = "QueryImpl"

\* The argument of find as Python parses it, & binding tighter than >= and ==:
\*   Query().cache_datetime >= (cache_time & Query().index_key) == type_id
\* cache_time is a float (timestamp() minus an int), Query().index_key a Query.
FreshnessQuery(cache_time, type_id) ==
    IF SupportsBitAnd("float", "Query")
    THEN [raised |-> FALSE, exc |-> "none", cutoff |-> cache_time, key |-> type_id]
    ELSE [raised |-> TRUE, exc |-> "TypeError", cutoff |-> cache_time, key |-> type_id]

\* the methods a TinyDB handle has (its own and its default table's)
TinyDBMethods ==
    {"search", "get", "contains", "count", "all", "insert", "update", "remove"}

\* db_handle.find(query): an attribute lookup on the handle, then the call
Find(table, query) ==
    IF "find" \in TinyDBMethods
    THEN [raised |-> FALSE, exc |-> "none",
          val |-> Docs(SelectSeq(table, LAMBDA doc :
                     doc.cache_datetime >= query.cutoff /\ doc.index_key = query.key))]
    ELSE [raised |-> TRUE, exc |-> "AttributeError", val |-> Unbound]

\* Python truth value of what `if cache_val:` tests
Truthy(val) ==
    IF val.kind = "docs" THEN val.docs # <<>> ELSE val.kind = "data"

\* The try block of validate_id (lines 130-145): db_handle and cache_val are
\* assigned only by the statements that complete; any exception is logged
\* and swallowed.
CacheLookup(table, utcnow, endpoint_name, type_id, env) ==
    LET opened == SetupCacheFile(endpoint_name, env.openable)
        cache_time == utcnow - CacheLimit
        query == FreshnessQuery(cache_time, type_id)
        found == Find(table, query)
    IN  IF opened.raised
        THEN [raised |-> TRUE, exc |-> opened.exc,
              db_handle |-> Unbound, cache_val |-> Unbound]
        ELSE IF ~env.ttl_readable
        THEN [raised |-> TRUE, exc |-> "NoOptionError",
              db_handle |-> Handle(opened.handle), cache_val |-> Unbound]
        ELSE IF query.raised
        THEN [raised |-> TRUE, exc |-> query.exc,
              db_handle |-> Handle(opened.handle), cache_val |-> Unbound]
        ELSE IF found.raised
        THEN [raised |-> TRUE, exc |-> found.exc,
              db_handle |-> Handle(opened.handle), cache_val |-> Unbound]
        ELSE [raised |-> FALSE, exc |-> "none",
              db_handle |-> Handle(opened.handle), cache_val |-> found.val]

\* ------------------------------------------------------------ resolver
KnownEndpoints == {"inventory_types", "map_regions"}

\* endpoint_to_kwarg with the parameter name of the other endpoint for
\* map_regions (a wrong mapping, for comparison)
EndpointToKwargOneNameForAll(endpoint_name, type_id) ==
    IF endpoint_name \in {"inventory_types", "map_regions"}
    THEN [raised |-> FALSE, exc |-> "none", name |-> "type_id", value |-> type_id]
    ELSE [raised |-> TRUE, exc |-> "UnsupportedCrestEndpoint", name |-> "none", value |-> type_id]

\* the dict {name: value} that endpoint_to_kwarg returns
Kwargs(name, value) == [kind |-> "kwargs", name |-> name, value |-> value]

\* endpoint_to_kwarg
EndpointToKwarg(endpoint_name, type_id) ==
    IF endpoint_name = "inventory_types"
    THEN [raised |-> FALSE, exc |-> "none", name |-> "type_id", value |-> type_id]
    ELSE IF endpoint_name = "map_regions"
    THEN [raised |-> FALSE, exc |-> "none", name |-> "region_id", value |-> type_id]
    ELSE [raised |-> TRUE, exc |-> "UnsupportedCrestEndpoint", name |-> "none", value |-> type_id]

\* ------------------------------------------------------------- fetcher
\* a fetcher that repeats the GET once after a failed request (for
\* comparison)
FetchCrestEndpointRetries(endpoint_name, kwarg_pair, env) ==
    IF env.template = "missing"
    THEN [raised |-> TRUE, exc |-> "UnsupportedCrestEndpoint", data |-> None, requests |-> 0]
    ELSE IF env.template # kwarg_pair.name
    THEN [raised |-> TRUE, exc |-> "CrestAddressError", data |-> None, requests |-> 0]
    ELSE IF ~env.useragent
    THEN [raised |-> TRUE, exc |-> "NoOptionError", data |-> None, requests |-> 0]
    ELSE IF env.remote = "ok"
    THEN [raised |-> FALSE, exc |-> "none", data |-> Data(env.payload), requests |-> 1]
    ELSE [raised |-> TRUE, exc |-> env.remote, data |-> None, requests |-> 2]

\* fetch_crest_endpoint: template lookup, substitution, header, one GET,
\* raise_for_status, json().  requests counts the GETs issued.
FetchCrestEndpoint(endpoint_name, kwarg_pair, env) ==
    IF env.template = "missing"
    THEN [raised |-> TRUE, exc |-> "UnsupportedCrestEndpoint", data |-> None, requests |-> 0]
    ELSE IF env.template # kwarg_pair.name
    THEN [raised |-> TRUE, exc |-> "CrestAddressError", data |-> None, requests |-> 0]
    ELSE IF ~env.useragent
    THEN [raised |-> TRUE, exc |-> "NoOptionError", data |-> None, requests |-> 0]
    ELSE IF env.remote = "ok"
    THEN [raised |-> FALSE, exc |-> "none", data |-> Data(env.payload), requests |-> 1]
    ELSE [raised |-> TRUE, exc |-> env.remote, data |-> None, requests |-> 1]

\* ------------------------------------------------------- validate_id
\* exceptions.IDValidationError(status=404, message='Unable to validate
\* {0}:{1}'), raised inside the except block without `from`: the caught
\* exception is not passed to the error and __cause__ stays None; context is
\* the __context__ the interpreter records on its own for a raise inside a
\* handler.
IDValidationError(endpoint_name, type_id, handled_exc) ==
    [status |-> 404,
     message |-> <<"Unable to validate", endpoint_name, type_id>>,
     cause |-> "none",
     context |-> handled_exc]

\* lines 157-165: resolve the parameters, then fetch
RemoteFetch(endpoint_name, type_id, env) ==
    LET kwarg_pair == EndpointToKwarg(endpoint_name, type_id)
    IN  IF kwarg_pair.raised
        THEN [raised |-> TRUE, exc |-> kwarg_pair.exc, data |-> None, requests |-> 0]
        ELSE FetchCrestEndpoint(endpoint_name, kwarg_pair, env)

FetchFailedLeaksCause(table, endpoint_name, type_id, lookup, fetched) ==
    [outcome |-> fetched.exc,
     phase |-> "fetch",
     type_info |-> Unbound,
     value |-> None,
     error |-> NoError,
     requests |-> fetched.requests,
     cache_exc |-> lookup.exc,
     fetch_exc |-> fetched.exc,
     write_failed |-> FALSE,
     table |-> table]

FetchFailedDropsEntry(table, endpoint_name, type_id, lookup, fetched) ==
    [outcome |-> "IDValidationError",
     phase |-> "fetch",
     type_info |-> Unbound,
     value |-> None,
     error |-> IDValidationError(endpoint_name, type_id, fetched.exc),
     requests |-> fetched.requests,
     cache_exc |-> lookup.exc,
     fetch_exc |-> fetched.exc,
     write_failed |-> FALSE,
     table |-> SelectSeq(table, LAMBDA doc : doc.index_key # type_id)]

\* lines 166-179: the except block of the fetch
FetchFailed(table, endpoint_name, type_id, lookup, fetched) ==
    [outcome |-> "IDValidationError",
     phase |-> "fetch",
     type_info |-> Unbound,
     value |-> None,
     error |-> IDValidationError(endpoint_name, type_id, fetched.exc),
     requests |-> fetched.requests,
     cache_exc |-> lookup.exc,
     fetch_exc |-> fetched.exc,
     write_failed |-> FALSE,
     table |-> table]

\* lines 183-195: the try block around write_cache_entry(db_handle, type_id,
\* type_info); reading an unassigned db_handle raises inside the try
UpdateCache(table, utcnow, db_handle, type_id, type_info, env) ==
    IF db_handle.kind = "unbound"
    THEN [raised |-> TRUE, exc |-> "UnboundLocalError", table |-> table]
    ELSE IF ~env.writable
    THEN [raised |-> TRUE, exc |-> "OSError", table |-> table]
    ELSE [raised |-> FALSE, exc |-> "none",
          table |-> WriteCacheEntry(table, type_id, type_info.data, utcnow)]

WritePhaseRaisesOnWriteFailure(table, utcnow, endpoint_name, type_id, lookup, fetched, env) ==
    LET written == UpdateCache(table, utcnow, lookup.db_handle, type_id, fetched.data, env)
    IN  [outcome |-> IF written.raised THEN written.exc ELSE "return",
         phase |-> "write",
         type_info |-> fetched.data,
         value |-> IF written.raised THEN None ELSE fetched.data,
         error |-> NoError,
         requests |-> fetched.requests,
         cache_exc |-> lookup.exc,
         fetch_exc |-> "none",
         write_failed |-> written.raised,
         table |-> written.table]

\* lines 181-197: best-effort cache write, then return type_info
WritePhase(table, utcnow, endpoint_name, type_id, lookup, fetched, env) ==
    LET written == UpdateCache(table, utcnow, lookup.db_handle, type_id, fetched.data, env)
    IN  [outcome |-> "return",
         phase |-> "write",
         type_info |-> fetched.data,
         value |-> fetched.data,
         error |-> NoError,
         requests |-> fetched.requests,
         cache_exc |-> lookup.exc,
         fetch_exc |-> "none",
         write_failed |-> written.raised,
         table |-> written.table]

\* lines 152-197
FetchPhase(table, utcnow, endpoint_name, type_id, lookup, env) ==
    LET fetched == RemoteFetch(endpoint_name, type_id, env)
    IN  IF fetched.raised
        THEN FetchFailed(table, endpoint_name, type_id, lookup, fetched)
        ELSE WritePhase(table, utcnow, endpoint_name, type_id, lookup, fetched, env)

\* validate_id on the table of endpoint_name.  With cache_buster the first
\* block is skipped and db_handle and cache_val are never assigned.
ValidateId(table, utcnow, endpoint_name, type_id, cache_buster, env) ==
    LET lookup == IF cache_buster
                  THEN [raised |-> FALSE, exc |-> "none",
                        db_handle |-> Unbound, cache_val |-> Unbound]
                  ELSE CacheLookup(table, utcnow, endpoint_name, type_id, env)
    IN  IF ~cache_buster /\ lookup.cache_val.kind = "unbound"
        THEN \* line 147 reads a name the failed try block never assigned
             [outcome |-> "UnboundLocalError",
              phase |-> "cache",
              type_info |-> Unbound,
              value |-> None,
              error |-> NoError,
              requests |-> 0,
              cache_exc |-> lookup.exc,
              fetch_exc |-> "none",
              write_failed |-> FALSE,
              table |-> table]
        ELSE IF ~cache_buster /\ Truthy(lookup.cache_val)
        THEN \* line 150
             [outcome |-> "return",
              phase |-> "cache",
              type_info |-> Unbound,
              value |-> lookup.cache_val,
              error |-> NoError,
              requests |-> 0,
              cache_exc |-> lookup.exc,
              fetch_exc |-> "none",
              write_failed |-> FALSE,
              table |-> table]
        ELSE FetchPhase(table, utcnow, endpoint_name, type_id, lookup, env)

\* ------------------------------------------------------------ the system
\* What the surroundings of one validate_id call can be.  A step that raises
\* ends its block, so what the later steps of that block would have met is
\* left at its default.
\* The cache side: whether the cache file opens, whether sde_cache_limit
\* can be read.
CacheEnvs ==
    {c \in [openable : BOOLEAN, ttl_readable : BOOLEAN] :
        ~c.openable => c.ttl_readable}

\* The fetch side: what [RESOURCES] and [GLOBAL] hold, what the remote
\* service answers, whether the store takes the write that follows.
FetchEnvs ==
    {f \in [template : Templates, useragent : BOOLEAN, remote : Remotes,
            payload : Payloads, writable : BOOLEAN] :
        /\ f.template = "missing" => f.useragent
        /\ ~f.useragent => f.remote = "ok"
        /\ f.remote # "ok" => f.payload = "doc_a" /\ f.writable}

DefaultCacheEnv == [openable |-> TRUE, ttl_readable |-> TRUE]

DefaultFetchEnv ==
    [template |-> "type_id", useragent |-> TRUE, remote |-> "ok",
     payload |-> "doc_a", writable |-> TRUE]

Env(c, f) ==
    [openable |-> c.openable, ttl_readable |-> c.ttl_readable,
     template |-> f.template, useragent |-> f.useragent, remote |-> f.remote,
     payload |-> f.payload, writable |-> f.writable]

NoCall ==
    [op |-> "none", endpoint_name |-> "none", type_id |-> 0, cache_buster |-> FALSE,
     data_payload |-> "none", branch |-> "none",
     outcome |-> "none", phase |-> "none", type_info |-> Unbound, value |-> None, error |-> NoError,
     requests |-> 0, cache_exc |-> "none", fetch_exc |-> "none", write_failed |-> FALSE,
     template |-> "none"]

Init ==
    /\ cache = [e \in Endpoints |-> <<>>]
    /\ now = 0
    /\ last = NoCall
    /\ calls = 0
    /\ procs = <<>>

\* the clock advances between calls
Tick ==
    /\ now < MaxTime
    /\ now' = now + 1
    /\ UNCHANGED <<cache, last, calls, procs>>

\* a caller runs write_cache_entry(setup_cache_file(endpoint_name), index_key,
\* data_payload); the store either takes the write or raises
WriteCacheEntryCall ==
    /\ calls < MaxCalls
    /\ \E endpoint_name \in Endpoints, index_key \in Ids, data_payload \in Payloads, writable \in BOOLEAN :
        /\ calls' = calls + 1
        /\ cache' = IF writable
                    THEN [cache EXCEPT ![endpoint_name] =
                            WriteCacheEntry(cache[endpoint_name], index_key, data_payload, now)]
                    ELSE cache
        /\ last' = [NoCall EXCEPT !.op = "write_cache_entry",
                                  !.endpoint_name = endpoint_name,
                                  !.type_id = index_key,
                                  !.data_payload = data_payload,
                                  !.branch = IF ~writable THEN "none"
                                             ELSE IF Search(cache[endpoint_name], index_key) # <<>>
                                             THEN "update" ELSE "insert",
                                  !.outcome = IF writable THEN "return" ELSE "OSError",
                                  !.write_failed = ~writable]
        /\ UNCHANGED <<now, procs>>

\* a caller runs validate_id(endpoint_name, type_id, cache_buster).  The cache
\* side of the surroundings is drawn only without cache_buster, the fetch
\* side only when the call gets past line 150.
ValidateIdCall ==
    /\ calls < MaxCalls
    /\ \E endpoint_name \in Endpoints, type_id \in Ids, cache_buster \in BOOLEAN :
      \E c \in (IF cache_buster THEN {DefaultCacheEnv} ELSE CacheEnvs) :
        \E f \in (IF ValidateId(cache[endpoint_name], now, endpoint_name, type_id,
                                cache_buster, Env(c, DefaultFetchEnv)).phase = "cache"
                  THEN {DefaultFetchEnv} ELSE FetchEnvs) :
          \E r \in {ValidateId(cache[endpoint_name], now, endpoint_name, type_id,
                              cache_buster, Env(c, f))} :
              /\ calls' = calls + 1
              /\ cache' = [cache EXCEPT ![endpoint_name] = r.table]
              /\ last' = [op |-> "validate_id", endpoint_name |-> endpoint_name,
                          type_id |-> type_id, cache_buster |-> cache_buster,
                          data_payload |-> "none", branch |-> "none",
                          outcome |-> r.outcome, phase |-> r.phase,
                          type_info |-> r.type_info, value |-> r.value,
                          error |-> r.error, requests |-> r.requests,
                          cache_exc |-> r.cache_exc, fetch_exc |-> r.fetch_exc,
                          write_failed |-> r.write_failed,
                          template |-> "none"]
              /\ UNCHANGED <<now, procs>>

Next == Tick \/ WriteCacheEntryCall \/ ValidateIdCall

Spec == Init /\ [][Next]_vars

\* ------------------------------------------- calls of the helper functions
\* endpoint_to_kwarg and fetch_crest_endpoint called on their own, next to
\* writes of the cache and the clock
\* a caller runs endpoint_to_kwarg(endpoint_name, type_id) on its own
EndpointToKwargCall ==
    /\ calls < MaxCalls
    /\ \E endpoint_name \in Endpoints, type_id \in Ids :
        \E r \in {EndpointToKwarg(endpoint_name, type_id)} :
          /\ calls' = calls + 1
          /\ last' = [NoCall EXCEPT !.op = "endpoint_to_kwarg",
                                    !.endpoint_name = endpoint_name,
                                    !.type_id = type_id,
                                    !.outcome = IF r.raised THEN r.exc ELSE "return",
                                    !.value = IF r.raised THEN None
                                              ELSE Kwargs(r.name, r.value)]
          /\ UNCHANGED <<cache, now, procs>>

\* the record of the call fetch_crest_endpoint(endpoint_name,
\* **{kwarg_name: type_id}) under the fetch side f; it keeps the [RESOURCES]
\* template the call met
FetchCall(endpoint_name, kwarg_name, type_id, f) ==
    LET r == FetchCrestEndpoint(endpoint_name, Kwargs(kwarg_name, type_id),
                                Env(DefaultCacheEnv, f))
    IN  [NoCall EXCEPT !.op = "fetch_crest_endpoint",
                       !.endpoint_name = endpoint_name,
                       !.type_id = type_id,
                       !.outcome = IF r.raised THEN r.exc ELSE "return",
                       !.value = r.data,
                       !.fetch_exc = r.exc,
                       !.requests = r.requests,
                       !.template = IF f.template = "missing" THEN "missing"
                                    ELSE IF f.template = kwarg_name
                                    THEN "matches" ELSE "other_key"]

\* a caller runs fetch_crest_endpoint on its own
FetchCrestEndpointCall ==
    /\ calls < MaxCalls
    /\ \E endpoint_name \in Endpoints, kwarg_name \in {"type_id", "region_id"},
          type_id \in Ids :
        \E call \in {FetchCall(endpoint_name, kwarg_name, type_id, f) : f \in FetchEnvs} :
          /\ calls' = calls + 1
          /\ last' = call
          /\ UNCHANGED <<cache, now, procs>>

NextDirect ==
    \/ Tick
    \/ WriteCacheEntryCall
    \/ EndpointToKwargCall
    \/ FetchCrestEndpointCall

SpecDirect == Init /\ [][NextDirect]_vars

\* ============================================================== claims
\* a validate_id call completes in this step
ValidateStep == calls' = calls + 1 /\ last'.op = "validate_id"

\* a write_cache_entry call completes in this step
WriteStep == calls' = calls + 1 /\ last'.op = "write_cache_entry"

\* the documents of the key that are strictly younger than the TTL
FreshDocs(table, index_key, utcnow) ==
    SelectSeq(table, LAMBDA doc :
        doc.index_key = index_key /\ utcnow - doc.cache_datetime < CacheLimit)

\* the exceptions of the cache block that come from the store or the
\* configuration being unavailable
StoreFaults == {"OSError", "NoOptionError"}

\* Every validate_id call without cache_buster ends at line 147: the query
\* expression of line 135 raises TypeError whenever it is reached, so the
\* try block never assigns cache_val.  (Why the premise of C1, a successful
\* return of validate_id with cache_buster=false, has no reachable instance.)
NoReturnWithoutCacheBuster ==
    (last.op = "validate_id" /\ ~last.cache_buster) =>
        /\ last.outcome = "UnboundLocalError"
        /\ last.cache_exc # "none"
        /\ last.requests = 0

\* C2: round trip through the cache.  A validate_id call without
\* cache_buster that meets a fresh document for its key, with the store and
\* the configuration available, returns that document's payload: the data
\* that was stored, not the document and not a list of documents.
C2_HitReturnsStoredPayload ==
    [][(/\ ValidateStep
        /\ ~last'.cache_buster
        /\ last'.cache_exc \notin StoreFaults
        /\ FreshDocs(cache[last'.endpoint_name], last'.type_id, now) # <<>>)
       => (/\ last'.outcome = "return"
           /\ last'.value =
                Data(FreshDocs(cache[last'.endpoint_name], last'.type_id, now)[1].payload))]_vars

\* C3: bypass correctness.  A validate_id call with cache_buster never
\* answers from the cache; when it returns it has issued one request, and
\* after it the table of its endpoint holds a document for its key with the
\* fetched data and the time of the call.
C3_BypassFetchesAndOverwrites ==
    [][(ValidateStep /\ last'.cache_buster)
       => (/\ last'.phase # "cache"
           /\ last'.outcome = "return" =>
                /\ last'.requests = 1
                /\ \E i \in DOMAIN cache'[last'.endpoint_name] :
                     LET doc == cache'[last'.endpoint_name][i]
                     IN  /\ doc.index_key = last'.type_id
                         /\ Data(doc.payload) = last'.value
                         /\ doc.cache_datetime = now')]_vars

\* C4: a failure of the cache block degrades to a cache miss.  A validate_id
\* call without cache_buster whose cache block raised ends with the fetched
\* data or with IDValidationError, never with another error.
C4_CacheFailureIsAMiss ==
    (last.op = "validate_id" /\ ~last.cache_buster /\ last.cache_exc # "none")
        => last.outcome \in {"return", "IDValidationError"}

\* C5: once validate_id is in the fetch phase, every failure of
\* endpoint_to_kwarg or fetch_crest_endpoint reaches the caller as
\* IDValidationError with a message naming the endpoint and the identifier.
C5_FetchFailuresSurfaceAsIDValidationError ==
    (last.op = "validate_id" /\ last.fetch_exc # "none")
        => /\ last.outcome = "IDValidationError"
           /\ last.error.message = <<"Unable to validate", last.endpoint_name, last.type_id>>

C5_Witness ==
    /\ last.op = "validate_id"
    /\ last.fetch_exc = "ValueError"
    /\ last.requests = 1
    /\ last.outcome = "IDValidationError"

C7_RemoteFailureLeavesCache ==
    [][(ValidateStep /\ last'.fetch_exc # "none")
       => (/\ last'.outcome = "IDValidationError"
           /\ cache'[last'.endpoint_name] = cache[last'.endpoint_name])]_vars

C7_Witness ==
    /\ last.op = "validate_id"
    /\ last.fetch_exc = "HTTPError"
    /\ last.outcome = "IDValidationError"
    /\ Search(cache[last.endpoint_name], last.type_id) # <<>>

\* C8: unknown endpoint.  A validate_id call for an endpoint name the
\* resolver does not know raises IDValidationError, issues no request and
\* leaves the cache as it was.
C8_UnknownEndpointIsIDValidationError ==
    [][(ValidateStep /\ last'.endpoint_name \notin KnownEndpoints)
       => (/\ last'.outcome = "IDValidationError"
           /\ last'.requests = 0
           /\ cache' = cache)]_vars

\* what validate_id catches when the endpoint is unknown, and when the
\* remote service is unavailable or answers with a non-success status
UnknownEndpointCauses == {"UnsupportedCrestEndpoint"}
RemoteUnavailableCauses == {"ConnectionError", "HTTPError"}

\* the IDValidationError of the same call in other surroundings f
ErrorUnder(f) ==
    ValidateId(cache[last.endpoint_name], now, last.endpoint_name, last.type_id,
               TRUE, Env(DefaultCacheEnv, f))

\* what the code puts into the error: its status, its message and the cause
\* it attaches
Carried(error) == <<error.status, error.message, error.cause>>

\* C9: the IDValidationError raised for an unknown endpoint differs, in its
\* status, its message or its attached cause, from the one raised for the
\* same endpoint name and identifier when the remote service is unavailable
\* or answers with a non-success status.
C9_ErrorTellsCauseApart ==
    (/\ last.op = "validate_id"
     /\ last.outcome = "IDValidationError"
     /\ last.fetch_exc \in UnknownEndpointCauses)
        => \A f \in FetchEnvs :
             (/\ ErrorUnder(f).outcome = "IDValidationError"
              /\ ErrorUnder(f).fetch_exc \in RemoteUnavailableCauses)
                 => Carried(ErrorUnder(f).error) # Carried(last.error)

\* C10: upsert uniqueness.  After every completed call each table holds at
\* most one document per index_key, and a write to a key that has a document
\* adds none and leaves, for that key, the document with the written payload
\* and the time of the write.
C10_UpsertUniqueness ==
    [][/\ \A e \in Endpoints, k \in Ids : Len(Search(cache'[e], k)) <= 1
       /\ (/\ WriteStep
           /\ last'.outcome = "return"
           /\ Search(cache[last'.endpoint_name], last'.type_id) # <<>>)
          => (/\ Len(cache'[last'.endpoint_name]) = Len(cache[last'.endpoint_name])
              /\ Search(cache'[last'.endpoint_name], last'.type_id) =
                   <<[cache_datetime |-> now',
                      payload |-> last'.data_payload,
                      index_key |-> last'.type_id]>>)]_vars

C10_Witness ==
    /\ last.op = "write_cache_entry"
    /\ last.branch = "update"
    /\ last.data_payload = "doc_b"
    /\ now = 1
    /\ Search(cache[last.endpoint_name], last.type_id) =
         <<[cache_datetime |-> 1, payload |-> "doc_b", index_key |-> last.type_id]>>

\* ==================================================== concurrent calls
\* Calls of validate_id and write_cache_entry that run concurrently (request
\* handlers of the web application).  Every call is a process; its steps are
\* the cache block of validate_id, the fetch, the call of write_cache_entry,
\* and inside write_cache_entry the search and the update or insert, each
\* tinyDB operation taken as one step.  The concurrent calls name the
\* endpoints that lines 92-103 know.
NProcs == 2
Procs == 1 .. NProcs

IdleProc ==
    [pc |-> "idle", op |-> "none", endpoint_name |-> "none", index_key |-> 0,
     data_payload |-> "none", cache_buster |-> FALSE, db_handle |-> Unbound,
     found |-> FALSE, outcome |-> "none"]

InitConc ==
    /\ cache = [e \in Endpoints |-> <<>>]
    /\ now = 0
    /\ last = NoCall
    /\ calls = 0
    /\ procs = [p \in Procs |-> IdleProc]

\* a call that has ended: its locals are gone, what it was and how it ended
\* stays on record
Ended(proc, outcome) ==
    [proc EXCEPT !.pc = "done", !.outcome = outcome,
                 !.db_handle = Unbound, !.found = FALSE]

\* the processes are interchangeable: they start in the order of their numbers
MayStart(p) ==
    /\ procs[p].pc = "idle"
    /\ \A q \in Procs : q < p => procs[q].pc # "idle"

\* a caller enters write_cache_entry(setup_cache_file(endpoint_name),
\* index_key, data_payload)
CallWriteCacheEntry ==
    \E p \in Procs :
        /\ MayStart(p)
        /\ \E endpoint_name \in KnownEndpoints, index_key \in Ids, data_payload \in Payloads :
             procs' = [procs EXCEPT ![p] =
                         [IdleProc EXCEPT !.pc = "search",
                                          !.op = "write_cache_entry",
                                          !.endpoint_name = endpoint_name,
                                          !.index_key = index_key,
                                          !.data_payload = data_payload,
                                          !.db_handle = Handle(endpoint_name)]]
        /\ UNCHANGED <<cache, now, last, calls>>

\* a caller enters validate_id; lines 124-150 run: with cache_buster nothing
\* is assigned, without it the cache block runs and line 147 reads cache_val
CallValidateId ==
    \E p \in Procs :
        /\ MayStart(p)
        /\ \E endpoint_name \in KnownEndpoints, type_id \in Ids, cache_buster \in BOOLEAN :
           \E c \in (IF cache_buster THEN {DefaultCacheEnv} ELSE CacheEnvs) :
             LET lookup == IF cache_buster
                           THEN [raised |-> FALSE, exc |-> "none",
                                 db_handle |-> Unbound, cache_val |-> Unbound]
                           ELSE CacheLookup(cache[endpoint_name], now, endpoint_name,
                                            type_id, Env(c, DefaultFetchEnv))
                 entered == [IdleProc EXCEPT !.op = "validate_id",
                                             !.endpoint_name = endpoint_name,
                                             !.index_key = type_id,
                                             !.cache_buster = cache_buster,
                                             !.db_handle = lookup.db_handle]
             IN  procs' = [procs EXCEPT ![p] =
                     IF ~cache_buster /\ lookup.cache_val.kind = "unbound"
                     THEN Ended(entered, "UnboundLocalError")
                     ELSE IF ~cache_buster /\ Truthy(lookup.cache_val)
                     THEN Ended(entered, "return")
                     ELSE [entered EXCEPT !.pc = "fetch"]]
        /\ UNCHANGED <<cache, now, last, calls>>

\* lines 153-179 of a validate_id call: resolve and fetch, raise
\* IDValidationError when that fails
FetchStep ==
    \E p \in Procs :
        /\ procs[p].pc = "fetch"
        /\ \E fetched \in {RemoteFetch(procs[p].endpoint_name, procs[p].index_key,
                                        Env(DefaultCacheEnv, f)) : f \in FetchEnvs} :
                 procs' = [procs EXCEPT ![p] =
                     IF fetched.raised
                     THEN Ended(@, "IDValidationError")
                     ELSE [@ EXCEPT !.pc = "update_cache",
                                    !.data_payload = fetched.data.data]]
        /\ UNCHANGED <<cache, now, last, calls>>

\* line 184 of a validate_id call: write_cache_entry(db_handle, type_id,
\* type_info); reading an unassigned db_handle raises, which lines 189-195
\* swallow, and line 197 returns
UpdateCacheStep ==
    \E p \in Procs :
        /\ procs[p].pc = "update_cache"
        /\ procs' = [procs EXCEPT ![p] =
                IF procs[p].db_handle.kind = "unbound"
                THEN Ended(@, "return")
                ELSE [@ EXCEPT !.pc = "search"]]
        /\ UNCHANGED <<cache, now, last, calls>>

\* line 60: tinydb_handle.search(Query().index_key == index_key)
SearchStep ==
    \E p \in Procs :
        /\ procs[p].pc = "search"
        /\ procs' = [procs EXCEPT ![p] =
                [@ EXCEPT !.pc = "write",
                          !.found = Search(cache[procs[p].endpoint_name],
                                           procs[p].index_key) # <<>>]]
        /\ UNCHANGED <<cache, now, last, calls>>

\* lines 61-76: the update or the insert that the search result selects
UpsertStep ==
    \E p \in Procs :
        /\ procs[p].pc = "write"
        /\ cache' = [cache EXCEPT ![procs[p].endpoint_name] =
                IF procs[p].found
                THEN Update(@, now, procs[p].data_payload, procs[p].index_key)
                ELSE Insert(@, now, procs[p].data_payload, procs[p].index_key)]
        /\ procs' = [procs EXCEPT ![p] = Ended(@, "return")]
        /\ UNCHANGED <<now, last, calls>>

\* the clock advances while the calls run
TickConc ==
    /\ now < MaxTime
    /\ now' = now + 1
    /\ UNCHANGED <<cache, last, calls, procs>>

NextConc ==
    \/ TickConc
    \/ CallWriteCacheEntry
    \/ CallValidateId
    \/ FetchStep
    \/ UpdateCacheStep
    \/ SearchStep
    \/ UpsertStep

SpecConc == InitConc /\ [][NextConc]_vars

\* ---------------------------------------------------------------- C11
\* C11: under every interleaving of the search, update and insert steps of
\* concurrent write_cache_entry calls (validate_id's included), no table
\* ever holds two entries with the same index_key.
C11_NoDuplicateUnderInterleaving ==
    \A e \in Endpoints : \A k \in Ids : Len(Search(cache[e], k)) <= 1

\* ---------------------------------------------------------------- C12
\* the ages, at utcnow, of the documents of the key
Ages(table, index_key, utcnow) ==
    {utcnow - Search(table, index_key)[i].cache_datetime :
        i \in DOMAIN Search(table, index_key)}

\* C12: the freshness boundary.  With the store and the configuration
\* available, a validate_id call without cache_buster whose key has an entry
\* of age cache_limit - 1 is answered from the cache without a request, and
\* one whose entries all have age cache_limit or more goes on to the remote
\* fetch.
C12_FreshnessBoundary ==
    [][(/\ ValidateStep
        /\ ~last'.cache_buster
        /\ last'.cache_exc \notin StoreFaults)
       => LET ages == Ages(cache[last'.endpoint_name], last'.type_id, now)
          IN  /\ (CacheLimit - 1) \in ages =>
                    /\ last'.phase = "cache"
                    /\ last'.outcome = "return"
                    /\ last'.requests = 0
              /\ (ages # {} /\ \A a \in ages : a >= CacheLimit) =>
                    last'.phase \in {"fetch", "write"}]_vars

\* ---------------------------------------------------------------- C13
\* C13: the lookup of validate_id yields an entry only when the entry has
\* the key of the call and is fresh; when the key has no fresh entry (stale,
\* absent, or only another key's entries) the lookup is a miss and the call
\* goes on to the fetch, it does not end in an error of the lookup.
C13_LookupYieldsOnlyFreshEntryOfKey ==
    [][(/\ ValidateStep
        /\ ~last'.cache_buster
        /\ last'.cache_exc \notin StoreFaults)
       => LET fresh == FreshDocs(cache[last'.endpoint_name], last'.type_id, now)
          IN  /\ last'.phase = "cache" =>
                    /\ last'.outcome = "return"
                    /\ fresh # <<>>
              /\ fresh = <<>> => last'.phase \in {"fetch", "write"}]_vars

\* ---------------------------------------------------------------- C14
\* an endpoint_to_kwarg call completes in this step
ResolveStep == calls' = calls + 1 /\ last'.op = "endpoint_to_kwarg"

\* C14: endpoint_to_kwarg maps inventory_types to {type_id: x} and
\* map_regions to {region_id: x}, x being the identifier it was given; for
\* every other endpoint name it raises UnsupportedCrestEndpoint and yields
\* no mapping; it changes no state.
C14_EndpointToKwargMapping ==
    [][ResolveStep
       => /\ last'.endpoint_name = "inventory_types" =>
                /\ last'.outcome = "return"
                /\ last'.value = [kind |-> "kwargs", name |-> "type_id",
                                  value |-> last'.type_id]
          /\ last'.endpoint_name = "map_regions" =>
                /\ last'.outcome = "return"
                /\ last'.value = [kind |-> "kwargs", name |-> "region_id",
                                  value |-> last'.type_id]
          /\ last'.endpoint_name \notin {"inventory_types", "map_regions"} =>
                /\ last'.outcome = "UnsupportedCrestEndpoint"
                /\ last'.value = None
          /\ cache' = cache
          /\ now' = now]_vars

\* an endpoint_to_kwarg call for map_regions has returned its mapping while
\* the cache holds an entry
C14_Witness ==
    /\ last.op = "endpoint_to_kwarg"
    /\ last.endpoint_name = "map_regions"
    /\ last.outcome = "return"
    /\ last.value.name = "region_id"
    /\ last.value.value = MaxId
    /\ cache["map_regions"] # <<>>

\* ---------------------------------------------------------------- C15
\* the concurrent validate_id call of process p has returned its data
Returned(p) ==
    /\ procs[p].op = "validate_id"
    /\ procs[p].pc = "done"
    /\ procs[p].outcome = "return"

\* C15: once two concurrent validate_id calls for two different identifiers
\* of the same endpoint have both returned the data they fetched, the table
\* of the endpoint holds for each identifier an entry with the payload that
\* its call fetched.
C15_DistinctIdsBothCached ==
    \A p, q \in DOMAIN procs :
        (/\ p # q
         /\ Returned(p)
         /\ Returned(q)
         /\ procs[p].endpoint_name = procs[q].endpoint_name
         /\ procs[p].index_key # procs[q].index_key)
        => \E i \in DOMAIN cache[procs[p].endpoint_name] :
             LET doc == cache[procs[p].endpoint_name][i]
             IN  /\ doc.index_key = procs[p].index_key
                 /\ doc.payload = procs[p].data_payload

\* ---------------------------------------------------------------- C16
\* process p does the update or the insert of its write in this step
Writes(p) == procs[p].pc = "write" /\ procs'[p].pc = "done"

\* the document that the write of process p stores when it happens now
Written(p) ==
    [cache_datetime |-> now,
     payload |-> procs[p].data_payload,
     index_key |-> procs[p].index_key]

C17_AtMostOneRequest ==
    last.op = "fetch_crest_endpoint" =>
        /\ last.requests <= 1
        /\ last.template = "missing" =>
              last.outcome = "UnsupportedCrestEndpoint" /\ last.requests = 0
        /\ last.template = "other_key" =>
              last.outcome = "CrestAddressError" /\ last.requests = 0
        /\ last.outcome \in (Remotes \ {"ok"}) =>
              last.requests = 1 /\ last.value = None
        /\ last.outcome = "return" =>
              last.requests = 1 /\ last.value.kind = "data"

\* a fetch_crest_endpoint call whose request the remote answered with an
\* error status has raised
C17_Witness ==
    /\ last.op = "fetch_crest_endpoint"
    /\ last.outcome = "HTTPError"
    /\ last.requests = 1

\* ---------------------------------------------------------------- C18
\* the documents of the table whose key is not index_key, in their order
OtherDocs(table, index_key) ==
    SelectSeq(table, LAMBDA doc : doc.index_key # index_key)

ValidateIdNeverWrites ==
    [][ValidateStep => cache' = cache]_vars

====
